---- MODULE Spec2Model ----
(***************************************************************************)
(* pulse-inhibit: a Wayland idle inhibitor held while audio is playing.    *)
(*                                                                         *)
(* The model follows src/src/main.rs.  Two threads run: the main thread    *)
(* (startup, then the producer loop reading `pactl subscribe` lines) and   *)
(* the debounce thread spawned at line 155.  They share one                *)
(* sync_channel(1).  Each action is a stretch of code between two blocking *)
(* points (a round-trip, a channel receive or send, a subprocess call, a   *)
(* line read).                                                             *)
(*                                                                         *)
(* Time is discrete: Tick advances the clocks by one tick, and the settle  *)
(* window of recv_timeout is Window ticks long.  Clocks saturate at        *)
(* Window, which is all the code can tell apart.                           *)
(***************************************************************************)
EXTENDS Integers, Sequences, FiniteSets, TLC

\* ------------------------------------------------------------------ bounds

\* the compositor advertises at most this many globals
MaxGlobals == 3
\* the external event stream delivers at most this many lines
MaxLines == 2
\* resolution of the model clock
TicksPerSecond == 2

\* --------------------------------------------------------------- constants

\* Duration::from_secs(1), the settle window
SettleSeconds == 1
\* sync_channel(1)
ChannelCapacity == 1
\* compositor: ... = 1
CompositorVersion == 1
\* idle_inhibit_manager: ... = 1
IdleInhibitManagerVersion == 1

Window == SettleSeconds * TicksPerSecond

Min(a, b) == IF a < b THEN a ELSE b

\* ------------------------------------------------------------------- state

VARIABLES
    pcMain,      \* where the main thread is
    exitCode,    \* "running", or the exit status of the process: "0", "101"
    registry,    \* the discovery pass: the globals its events carried, the binds issued
    proxies,     \* struct Proxies: per field, the name of the global bound (0: None)
    pcLoop,      \* where the debounce thread is
    chan,        \* the buffer of the sync_channel
    elapsed,     \* ticks since the current recv_timeout was called
    app,         \* struct App (0: no inhibitor / None)
    live,        \* inhibitor objects created and not destroyed
    outgoing,    \* requests queued on the connection since the last round-trip
    server,      \* what the compositor has processed
    call,        \* the latest set_inhibited call: its argument and what it did
    queries,     \* check_uncorked() calls started
    linesRead,   \* lines of the external stream consumed
    lastLine,    \* the line consumed last, as <<line>> (<<>>: none yet)
    lastSend,    \* how the latest send went: "none", "direct", "waited", "failed"
    startupSends,\* sends of the synthetic startup signal
    gap,         \* ticks since a signal last entered the buffer
    sinceRecv,   \* ticks since the debounce thread last received a signal
    burst,       \* the burst the latest received signal belongs to
    loopFailedAt \* when the debounce thread panicked: the lines consumed by then
                 \* and where the main thread was (<<>>: it has not panicked)

vars ==
    <<pcMain, exitCode, registry, proxies, pcLoop, chan, elapsed, app,
      live, outgoing, server, call, queries, linesRead, lastLine, lastSend,
      startupSends,
      gap,
      sinceRecv, burst, loopFailedAt>>

mainVars ==
    <<pcMain, registry, proxies, linesRead, lastLine, lastSend, startupSends>>
loopVars == <<pcLoop, elapsed, app, live, call, queries, burst, loopFailedAt>>
wireVars == <<outgoing, server>>
clockVars == <<elapsed, gap, sinceRecv>>

\* --------------------------------------------------------- registry binder

Interfaces == {"wl_compositor", "zwp_idle_inhibit_manager_v1", "wl_shm"}

\* What a compositor may advertise: the i-th global has numeric name i.
GlobalLists == UNION {[1..n -> Interfaces] : n \in 0..MaxGlobals}

\* proxies! { struct Proxies { compositor, idle_inhibit_manager } }
ProxyTable ==
    << [field |-> "compositor", interface |-> "wl_compositor",
        version |-> CompositorVersion],
       [field |-> "idle_inhibit_manager",
        interface |-> "zwp_idle_inhibit_manager_v1",
        version |-> IdleInhibitManagerVersion] >>

NoProxies == [compositor |-> 0, idle_inhibit_manager |-> 0]

\* A variant of BindField that keeps a field already bound.
BindFieldIfUnbound(st, entry, name) ==
    IF st.proxies[entry.field] # 0
    THEN st
    ELSE [proxies |-> [st.proxies EXCEPT ![entry.field] = name],
          binds |-> Append(st.binds,
                      [name |-> name, interface |-> entry.interface,
                       version |-> entry.version])]

\* state.$field = Some(registry.bind(name, $version, handle, ()))
BindField(st, entry, name) ==
    [proxies |-> [st.proxies EXCEPT ![entry.field] = name],
     binds |-> Append(st.binds,
                 [name |-> name, interface |-> entry.interface,
                  version |-> entry.version])]

\* $({ if wanted.name == interface { ...; return; } })* from entry i on
RECURSIVE TryEntries(_, _, _, _)
TryEntries(st, name, interface, i) ==
    IF i > Len(ProxyTable)
    THEN st
    ELSE IF ProxyTable[i].interface = interface
         THEN BindField(st, ProxyTable[i], name)
         ELSE TryEntries(st, name, interface, i + 1)

\* Dispatch<WlRegistry>::event on Event::Global { name, interface, .. }
EventGlobal(st, name, interface) == TryEntries(st, name, interface, 1)

\* queue.roundtrip(&mut proxies): the Global events, in the order advertised
RECURSIVE DispatchGlobals(_, _, _)
DispatchGlobals(st, globals, i) ==
    IF i > Len(globals)
    THEN st
    ELSE DispatchGlobals(EventGlobal(st, i, globals[i]), globals, i + 1)

\* --------------------------------------------------------- event filter

\* "Event 'change' on "
ChangePrefix ==
    <<"E", "v", "e", "n", "t", " ", "'", "c", "h", "a", "n", "g", "e", "'",
      " ", "o", "n", " ">>

\* "sink-input"
SinkInput ==
    <<"s", "i", "n", "k", "-", "i", "n", "p", "u", "t">>

\* "source-output"
SourceOutput ==
    <<"s", "o", "u", "r", "c", "e", "-", "o", "u", "t", "p", "u", "t">>

\* "Event 'change' on client #3"
LineChangeClient ==
    <<"E", "v", "e", "n", "t", " ", "'", "c", "h", "a", "n", "g", "e", "'",
      " ", "o", "n", " ", "c", "l", "i", "e", "n", "t", " ", "#", "3">>

\* "Event 'new' on sink-input #1"
LineNewSinkInput ==
    <<"E", "v", "e", "n", "t", " ", "'", "n", "e", "w", "'", " ", "o", "n",
      " ", "s", "i", "n", "k", "-", "i", "n", "p", "u", "t", " ", "#", "1">>

\* "Event 'change' on sink-input #1"
LineChangeSinkInput ==
    <<"E", "v", "e", "n", "t", " ", "'", "c", "h", "a", "n", "g", "e", "'",
      " ", "o", "n", " ", "s", "i", "n", "k", "-", "i", "n", "p", "u", "t",
      " ", "#", "1">>

\* "Event 'change' on source-output #2"
LineChangeSourceOutput ==
    <<"E", "v", "e", "n", "t", " ", "'", "c", "h", "a", "n", "g", "e", "'",
      " ", "o", "n", " ", "s", "o", "u", "r", "c", "e", "-", "o", "u", "t",
      "p", "u", "t", " ", "#", "2">>

\* "Event 'change' on sink #0"
LineChangeSink ==
    <<"E", "v", "e", "n", "t", " ", "'", "c", "h", "a", "n", "g", "e", "'",
      " ", "o", "n", " ", "s", "i", "n", "k", " ", "#", "0">>

\* The lines the external stream may deliver.
Lines ==
    {LineChangeClient, LineNewSinkInput, LineChangeSinkInput,
     LineChangeSourceOutput, LineChangeSink, <<>>}

\* str::starts_with
StartsWith(s, p) == Len(s) >= Len(p) /\ SubSeq(s, 1, Len(p)) = p

\* str::strip_prefix: <<rest>> for Some(rest), <<>> for None
StripPrefix(s, p) ==
    IF StartsWith(s, p) THEN <<SubSeq(s, Len(p) + 1, Len(s))>> ELSE <<>>

\* A filter that looks at the object kind alone, whatever the event.
AcceptedAnyEvent(line) ==
    \E n \in 0..Len(line) :
        LET on == SubSeq(line, n + 1, Len(line))
        IN  StartsWith(on, SinkInput) \/ StartsWith(on, SourceOutput)

\* The two `continue`s of the producer loop: whether the line reaches the send.
Accepted(line) ==
    LET on == StripPrefix(line, ChangePrefix)
    IN  /\ on # <<>>
        /\ ~(~StartsWith(on[1], SinkInput) /\ ~StartsWith(on[1], SourceOutput))

\* ------------------------------------------------------------------ Init

NoCall ==
    [made |-> FALSE, arg |-> FALSE, again |-> FALSE, held |-> 0,
     passes |-> 0, reqs |-> <<>>, rts |-> 0]

NoBurst == [signals |-> 0, queries |-> 0, sets |-> 0]

Init ==
    /\ pcMain = "connect"
    /\ exitCode = "running"
    /\ registry = [globals |-> <<>>, binds |-> <<>>]
    /\ proxies = NoProxies
    /\ pcLoop = "unspawned"
    /\ chan = <<>>
    /\ elapsed = 0
    /\ app = [dummy_surface |-> 0, manager |-> 0, inhibitor |-> 0]
    /\ live = {}
    /\ outgoing = <<>>
    /\ server = [surfaces |-> {}, inhibitors |-> {}]
    /\ call = NoCall
    /\ queries = 0
    /\ linesRead = 0
    /\ lastLine = <<>>
    /\ lastSend = "none"
    /\ startupSends = 0
    /\ gap = Window
    /\ sinceRecv = Window
    /\ burst = NoBurst
    /\ loopFailedAt = <<>>

Alive == exitCode = "running"

\* update_send has been dropped: main returned or is unwinding
SenderDropped == pcMain \in {"returned", "panicked"}

\* update_recv has been dropped: the debounce thread ended
ReceiverDropped == pcLoop \in {"panicked", "finished"}

\* ------------------------------------------------------- protocol connection

Request(op, id, on) == [op |-> op, id |-> id, on |-> on]

\* The compositor processes one request.
Process(srv, req) ==
    IF req.op = "create_surface"
    THEN [srv EXCEPT !.surfaces = @ \cup {req.id}]
    ELSE IF req.op = "create_inhibitor"
         THEN [srv EXCEPT !.inhibitors = @ \cup {req.id}]
         ELSE [srv EXCEPT !.inhibitors = @ \ {req.id}]

\* A round-trip: everything queued so far is flushed and processed.
RECURSIVE Flush(_, _)
Flush(srv, reqs) ==
    IF reqs = <<>> THEN srv ELSE Flush(Process(srv, Head(reqs)), Tail(reqs))

\* The id a new protocol object gets: the lowest one free.
NewId(used) ==
    CHOOSE i \in 1..(Cardinality(used) + 1) :
        i \notin used /\ \A j \in 1..(i - 1) : j \in used

\* ---------------------------------------------------------- the channel

\* A WakeSignal is (); the model tags it with whether it enters the buffer
\* within the settle window of the signal before it (history, read by no
\* action).
Signal == [cont |-> gap < Window]

\* A buffer with room for one signal more.
OneSlotMore == ChannelCapacity + 1

\* The bound of the buffer a send waits for: sync_channel(1)
BufferBound == ChannelCapacity

\* A send that does not notice that the receiver is gone.
SendUnaware(next) ==
    IF Len(chan) < BufferBound
    THEN /\ chan' = Append(chan, Signal)
         /\ gap' = 0
         /\ pcMain' = next
         /\ lastSend' = "direct"
    ELSE /\ pcMain' = "sending"
         /\ lastSend' = "waited"
         /\ UNCHANGED <<chan, gap>>

\* update_send.send(()).unwrap(), called from a place that continues at `next`
Send(next) ==
    IF ReceiverDropped
    THEN /\ pcMain' = "panicked"
         /\ lastSend' = "failed"
         /\ UNCHANGED <<chan, gap>>
    ELSE IF Len(chan) < BufferBound
         THEN /\ chan' = Append(chan, Signal)
              /\ gap' = 0
              /\ pcMain' = next
              /\ lastSend' = "direct"
         ELSE /\ pcMain' = "sending"
              /\ lastSend' = "waited"
              /\ UNCHANGED <<chan, gap>>

\* The debounce thread takes the signal at the head of the buffer.
Take ==
    /\ chan # <<>>
    /\ chan' = Tail(chan)
    /\ sinceRecv' = 0
    /\ burst' = IF Head(chan).cont
                THEN [burst EXCEPT !.signals = @ + 1]
                ELSE [signals |-> 1, queries |-> 0, sets |-> 0]

\* ------------------------------------------------------------ main: startup

\* Connection::connect_to_env().unwrap()
ConnectOk ==
    /\ Alive /\ pcMain = "connect"
    /\ pcMain' = "discover"
    /\ UNCHANGED <<exitCode, registry, proxies, linesRead, lastLine, lastSend, startupSends, chan,
                   loopVars, wireVars, gap, sinceRecv>>

ConnectFail ==
    /\ Alive /\ pcMain = "connect"
    /\ pcMain' = "panicked"
    /\ UNCHANGED <<exitCode, registry, proxies, linesRead, lastLine, lastSend, startupSends, chan,
                   loopVars, wireVars, gap, sinceRecv>>

\* get_registry, then queue.roundtrip(&mut proxies).unwrap()
Discover ==
    /\ Alive /\ pcMain = "discover"
    /\ \E globals \in GlobalLists :
         LET st == DispatchGlobals([proxies |-> NoProxies, binds |-> <<>>],
                                   globals, 1)
         IN  /\ registry' = [globals |-> globals, binds |-> st.binds]
             /\ proxies' = st.proxies
    /\ pcMain' = "expect"
    /\ UNCHANGED <<exitCode, linesRead, lastLine, lastSend, startupSends, chan, loopVars,
                   wireVars, gap, sinceRecv>>

DiscoverFail ==
    /\ Alive /\ pcMain = "discover"
    /\ pcMain' = "panicked"
    /\ UNCHANGED <<exitCode, registry, proxies, linesRead, lastLine, lastSend, startupSends, chan,
                   loopVars, wireVars, gap, sinceRecv>>

\* A check that looks at the idle-inhibit manager alone.
OnlyManagerBound == proxies.idle_inhibit_manager # 0

\* Both .expect(..) hold: every required global was bound.
AllBound == proxies.idle_inhibit_manager # 0 /\ proxies.compositor # 0

\* the discovery queue is dropped; the two .expect(..); compositor.create_surface
CreateSurface ==
    /\ Alive /\ pcMain = "expect"
    /\ registry' = [globals |-> <<>>, binds |-> <<>>]
    /\ IF AllBound
       THEN /\ app' = [app EXCEPT !.dummy_surface = NewId(server.surfaces)]
            /\ outgoing' = Append(outgoing,
                             Request("create_surface", NewId(server.surfaces), 0))
            /\ pcMain' = "surface"
       ELSE /\ pcMain' = "panicked"
            /\ UNCHANGED <<app, outgoing>>
    /\ UNCHANGED <<exitCode, proxies, linesRead, lastLine, lastSend, startupSends, chan,
                   pcLoop, elapsed, live, call, queries, burst, loopFailedAt,
                   server, gap, sinceRecv>>

\* queue.roundtrip(&mut Ignored).unwrap(); App { .. }; sync_channel(1);
\* thread::spawn: the debounce thread starts in update_recv.recv()
SurfaceRoundtripOk ==
    /\ Alive /\ pcMain = "surface"
    /\ server' = Flush(server, outgoing)
    /\ outgoing' = <<>>
    /\ app' = [app EXCEPT !.manager = proxies.idle_inhibit_manager,
                          !.inhibitor = 0]
    /\ pcLoop' = "recv"
    /\ pcMain' = "pactl"
    /\ UNCHANGED <<exitCode, registry, proxies, linesRead, lastLine, lastSend, startupSends, chan,
                   elapsed, live, call, queries, burst, loopFailedAt,
                   gap, sinceRecv>>

SurfaceRoundtripFail ==
    /\ Alive /\ pcMain = "surface"
    /\ pcMain' = "panicked"
    /\ UNCHANGED <<exitCode, registry, proxies, linesRead, lastLine, lastSend, startupSends, chan,
                   loopVars, wireVars, gap, sinceRecv>>

\* Command::new("pactl") .. .spawn().unwrap(); update_send.send(()).unwrap()
StartupSend ==
    /\ Alive /\ pcMain = "pactl"
    /\ Send("lines")
    /\ startupSends' = startupSends + 1
    /\ UNCHANGED <<exitCode, registry, proxies, linesRead, lastLine, loopVars, wireVars,
                   sinceRecv>>

SpawnPactlFail ==
    /\ Alive /\ pcMain = "pactl"
    /\ pcMain' = "panicked"
    /\ UNCHANGED <<exitCode, registry, proxies, linesRead, lastLine, lastSend, startupSends, chan,
                   loopVars, wireVars, gap, sinceRecv>>

\* ------------------------------------------------------ inhibitor controller

\* App::is_inhibited
IsInhibited == app.inhibitor # 0

\* A guard that never holds.
NeverAlreadySet(inhibited) == FALSE

\* A guard that always holds.
AlwaysAlreadySet(inhibited) == TRUE

\* if inhibited == self.is_inhibited() { return; }
AlreadySet(inhibited) == inhibited = IsInhibited

\* A surface made for the occasion, not the one the controller owns.
AnotherSurface == app.dummy_surface + 1

\* &self.dummy_surface, the surface an inhibitor is created for
DummySurface == app.dummy_surface

\* A set_inhibited that returns without waiting for its round-trip.
ReturnAtOnce == "recv"

\* queue.roundtrip(..) blocks: the thread stays inside set_inhibited
AwaitRoundtrip == "roundtrip"

\* What `call` records when set_inhibited(inhibited) is entered: the argument,
\* whether the call before had the same one, and the inhibitors then held.
Entered(inhibited, passes, reqs) ==
    [made |-> TRUE, arg |-> inhibited,
     again |-> call.made /\ call.arg = inhibited,
     held |-> Cardinality(live), passes |-> passes, reqs |-> reqs, rts |-> 0]

\* App::set_inhibited up to the round-trip it blocks in
SetInhibited(inhibited) ==
    /\ burst' = [burst EXCEPT !.sets = @ + 1]
    /\ IF AlreadySet(inhibited)
       THEN /\ call' = Entered(inhibited, 0, <<>>)
            /\ pcLoop' = "recv"
            /\ UNCHANGED <<app, live, outgoing, loopFailedAt>>
       ELSE IF inhibited
            THEN LET id == NewId(live)
                 IN  /\ app' = [app EXCEPT !.inhibitor = id]
                     /\ live' = live \cup {id}
                     /\ outgoing' = Append(outgoing,
                                      Request("create_inhibitor", id, DummySurface))
                     /\ call' = Entered(inhibited, 1, <<"create_inhibitor">>)
                     /\ pcLoop' = AwaitRoundtrip
                     /\ UNCHANGED loopFailedAt
            ELSE IF app.inhibitor = 0
                 THEN \* self.inhibitor.take().unwrap() on None
                      /\ call' = Entered(inhibited, 1, <<>>)
                      /\ pcLoop' = "panicked"
                      /\ loopFailedAt' = <<[lines |-> linesRead, main |-> pcMain]>>
                      /\ UNCHANGED <<app, live, outgoing>>
                 ELSE /\ app' = [app EXCEPT !.inhibitor = 0]
                      /\ live' = live \ {app.inhibitor}
                      /\ outgoing' = Append(outgoing,
                                       Request("destroy", app.inhibitor, 0))
                      /\ call' = Entered(inhibited, 1, <<"destroy">>)
                      /\ pcLoop' = AwaitRoundtrip
                      /\ UNCHANGED loopFailedAt

\* ---------------------------------------------------------- debounce thread

\* update_recv.recv() returns Ok(()); the first recv_timeout is called
InitialRecv ==
    /\ Alive /\ pcLoop = "recv"
    /\ Take
    /\ pcLoop' = "settle"
    /\ elapsed' = 0
    /\ UNCHANGED <<exitCode, mainVars, app, live, call, queries,
                   loopFailedAt, wireVars, gap>>

\* update_recv.recv() returns Err: break 'initial
InitialDisconnected ==
    /\ Alive /\ pcLoop = "recv"
    /\ chan = <<>> /\ SenderDropped
    /\ pcLoop' = "finished"
    /\ UNCHANGED <<exitCode, mainVars, chan, elapsed, app, live, call,
                   queries, burst, loopFailedAt, wireVars, gap, sinceRecv>>

\* A window that is not restarted by a signal.
KeepWindow(e) == e

\* The next recv_timeout(Duration::from_secs(1)) starts a window of its own.
RestartWindow(e) == 0

\* recv_timeout returns Ok(()): the 'debounced loop goes round
SettleRecv ==
    /\ Alive /\ pcLoop = "settle"
    /\ Take
    /\ elapsed' = RestartWindow(elapsed)
    /\ UNCHANGED <<exitCode, mainVars, pcLoop, app, live, call,
                   queries, loopFailedAt, wireVars, gap>>

\* A wait that gives up at once.
NoWait == TRUE

\* A wait that never gives up.
WaitForever == FALSE

\* recv_timeout has waited its Duration with nothing to receive
TimedOut == elapsed = Window

\* Err(RecvTimeoutError::Timeout) => break 'debounced; check_uncorked() is called
\* (an empty channel whose sender is gone yields Disconnected, not Timeout)
SettleTimeout ==
    /\ Alive /\ pcLoop = "settle"
    /\ chan = <<>> /\ TimedOut /\ ~SenderDropped
    /\ pcLoop' = "query"
    /\ queries' = queries + 1
    /\ burst' = [burst EXCEPT !.queries = @ + 1]
    /\ UNCHANGED <<exitCode, mainVars, chan, elapsed, app, live, call,
                   loopFailedAt, wireVars, gap, sinceRecv>>

\* A Disconnected arm that only leaves the inner loop, as the Timeout arm does.
BreakDebounced == "query"

\* break 'initial: the thread's closure returns
BreakInitial == "finished"

\* Err(RecvTimeoutError::Disconnected) => break 'initial
SettleDisconnected ==
    /\ Alive /\ pcLoop = "settle"
    /\ chan = <<>> /\ SenderDropped
    /\ pcLoop' = BreakInitial
    /\ UNCHANGED <<exitCode, mainVars, chan, elapsed, app, live, call,
                   queries, burst, loopFailedAt, wireVars, gap, sinceRecv>>

\* check_uncorked() returns; app.set_inhibited(any_running)
OracleReturn ==
    /\ Alive /\ pcLoop = "query"
    /\ \E any_running \in BOOLEAN : SetInhibited(any_running)
    /\ UNCHANGED <<exitCode, mainVars, chan, elapsed, queries, server,
                   gap, sinceRecv>>

\* check_uncorked() panics: pactl cannot be run, or its output is not UTF-8
OracleFail ==
    /\ Alive /\ pcLoop = "query"
    /\ pcLoop' = "panicked"
    /\ loopFailedAt' = <<[lines |-> linesRead, main |-> pcMain]>>
    /\ UNCHANGED <<exitCode, mainVars, chan, elapsed, app, live, call,
                   queries, burst, wireVars, gap, sinceRecv>>

\* queue.roundtrip(&mut Ignored) returns Ok; set_inhibited returns; recv()
RoundtripOk ==
    /\ Alive /\ pcLoop = "roundtrip"
    /\ server' = Flush(server, outgoing)
    /\ outgoing' = <<>>
    /\ call' = [call EXCEPT !.rts = @ + 1]
    /\ pcLoop' = "recv"
    /\ UNCHANGED <<exitCode, mainVars, chan, elapsed, app, live,
                   queries, burst, loopFailedAt, gap, sinceRecv>>

\* queue.roundtrip(&mut Ignored).unwrap() panics; the requests may have left
RoundtripFail ==
    /\ Alive /\ pcLoop = "roundtrip"
    /\ \/ /\ server' = Flush(server, outgoing)
          /\ outgoing' = <<>>
       \/ UNCHANGED <<server, outgoing>>
    /\ pcLoop' = "panicked"
    /\ loopFailedAt' = <<[lines |-> linesRead, main |-> pcMain]>>
    /\ UNCHANGED <<exitCode, mainVars, chan, elapsed, app, live, call,
                   queries, burst, gap, sinceRecv>>

\* ------------------------------------------------------ main: producer loop

\* audio_events yields Some(Ok(line)): the filter, then the send
ReadLine ==
    /\ Alive /\ pcMain = "lines"
    /\ linesRead < MaxLines
    /\ linesRead' = linesRead + 1
    /\ \E line \in Lines :
         /\ lastLine' = <<line>>
         /\ IF Accepted(line)
            THEN Send("lines")
            ELSE UNCHANGED <<pcMain, chan, gap, lastSend>>
    /\ UNCHANGED <<exitCode, registry, proxies, startupSends, loopVars,
                   wireVars, sinceRecv>>

\* audio_events yields Some(Err(_)): event.unwrap() panics
ReadError ==
    /\ Alive /\ pcMain = "lines"
    /\ pcMain' = "panicked"
    /\ UNCHANGED <<exitCode, registry, proxies, linesRead, lastLine, lastSend, startupSends, chan,
                   loopVars, wireVars, gap, sinceRecv>>

\* audio_events yields None: main returns, update_send is dropped
StreamClosed ==
    /\ Alive /\ pcMain = "lines"
    /\ pcMain' = "returned"
    /\ UNCHANGED <<exitCode, registry, proxies, linesRead, lastLine, lastSend, startupSends, chan,
                   loopVars, wireVars, gap, sinceRecv>>

\* The blocked send finds room in the buffer.
SendUnblocked ==
    /\ Alive /\ pcMain = "sending"
    /\ ~ReceiverDropped
    /\ Len(chan) < BufferBound
    /\ chan' = Append(chan, Signal)
    /\ gap' = 0
    /\ pcMain' = "lines"
    /\ UNCHANGED <<exitCode, registry, proxies, linesRead, lastLine, lastSend, startupSends,
                   loopVars, wireVars, sinceRecv>>

\* The blocked send finds the receiver gone: send returns Err, unwrap panics.
SendDisconnected ==
    /\ Alive /\ pcMain = "sending"
    /\ ReceiverDropped
    /\ pcMain' = "panicked"
    /\ lastSend' = "failed"
    /\ UNCHANGED <<exitCode, registry, proxies, linesRead, lastLine, startupSends, chan,
                   loopVars, wireVars, gap, sinceRecv>>

\* The process ends: main returned (0) or panicked (101); every thread ends.
ProcessExit ==
    /\ Alive /\ pcMain \in {"returned", "panicked"}
    /\ exitCode' = IF pcMain = "returned" THEN "0" ELSE "101"
    /\ UNCHANGED <<mainVars, chan, loopVars, wireVars, gap, sinceRecv>>

\* ------------------------------------------------------------------ time

\* One tick passes.  A main thread that has returned or panicked ends the
\* process first: that takes no time on the scale of the settle window.
Tick ==
    /\ Alive /\ pcLoop \notin {"unspawned", "panicked", "finished"}
    /\ ~SenderDropped
    /\ elapsed' = IF pcLoop = "settle" THEN Min(elapsed + 1, Window) ELSE elapsed
    /\ gap' = Min(gap + 1, Window)
    /\ sinceRecv' = Min(sinceRecv + 1, Window)
    /\ UNCHANGED <<exitCode, mainVars, chan, pcLoop, app, live, call,
                   queries, burst, loopFailedAt, wireVars>>

\* ------------------------------------------------------------ specification

Next ==
    \/ ConnectOk \/ ConnectFail
    \/ Discover \/ DiscoverFail
    \/ CreateSurface
    \/ SurfaceRoundtripOk \/ SurfaceRoundtripFail
    \/ StartupSend \/ SpawnPactlFail
    \/ ReadLine \/ ReadError \/ StreamClosed
    \/ SendUnblocked \/ SendDisconnected
    \/ ProcessExit
    \/ InitialRecv \/ InitialDisconnected
    \/ SettleRecv \/ SettleTimeout \/ SettleDisconnected
    \/ OracleReturn \/ OracleFail
    \/ RoundtripOk \/ RoundtripFail
    \/ Tick

Spec == Init /\ [][Next]_vars

\* Both threads are scheduled: a step of the program's own that stays
\* enabled is taken, and time passes.  Nothing is assumed of the outside:
\* pactl may stay silent, and `pactl list` and the compositor may never
\* answer.
Scheduling ==
    /\ WF_vars(InitialRecv) /\ WF_vars(InitialDisconnected)
    /\ WF_vars(SettleRecv) /\ WF_vars(SettleTimeout)
    /\ WF_vars(SettleDisconnected)
    /\ WF_vars(SendUnblocked) /\ WF_vars(SendDisconnected)
    /\ WF_vars(Tick)

FairSpec == Spec /\ Scheduling

\* ================================================================== claims

\* ---- C1
\* C1: is_inhibited() is true exactly when one Inhibitor object is held, and
\* never are two held; a create request is issued only while none is held and
\* a destroy request only while one is held.
\* (`live` is counted by the requests issued, not read off app.inhibitor.)
C1_InhibitorExistence ==
    /\ Cardinality(live) <= 1
    /\ (app.inhibitor # 0) <=> (Cardinality(live) = 1)
    /\ (app.inhibitor # 0) => live = {app.inhibitor}
    /\ call.reqs = <<"create_inhibitor">> => call.held = 0
    /\ call.reqs = <<"destroy">> => call.held = 1
    /\ \A i \in 1..Len(outgoing) :
         /\ outgoing[i].op = "create_inhibitor"
              => outgoing[i].id \notin server.inhibitors
         /\ outgoing[i].op = "destroy"
              => outgoing[i].id \in server.inhibitors

\* An inhibitor was created, confirmed, and then destroyed and confirmed.
C1_Witness ==
    /\ call.reqs = <<"destroy">> /\ call.rts = 1
    /\ app.inhibitor = 0 /\ live = {}

\* ---- C2
\* A step in which set_inhibited is entered with the argument of the call
\* before it.
C2_SecondCall ==
    /\ pcLoop = "query" /\ pcLoop' \in {"recv", "roundtrip"}
    /\ call.made /\ call'.arg = call.arg

\* C2: set_inhibited(v) called twice in a row issues in total at most one
\* create/destroy request and at most one round-trip, and the second call is
\* a no-op: no dispatch pass, no request, no round-trip, the controller state
\* unchanged.
C2_Idempotent ==
    /\ [](/\ Len(call.reqs) <= 1 /\ call.rts <= 1 /\ call.passes <= 1
          /\ call.again => (call.passes = 0 /\ call.reqs = <<>> /\ call.rts = 0))
    /\ [][C2_SecondCall =>
            /\ call'.again
            /\ pcLoop' = "recv"
            /\ UNCHANGED <<app, live, outgoing, server>>]_vars

\* set_inhibited(true) has been called twice in a row.
C2_Witness ==
    /\ call.again /\ call.arg /\ pcLoop = "recv"
    /\ app.inhibitor # 0

\* ---- C3
\* C3: a burst of signals, each sent within the settle window of the one
\* before, gets at most one audio-state query and at most one set_inhibited
\* call, and exactly one of each once the loop is back in step 1; however the
\* sends fall among the loop's phases.
C3_Coalescing ==
    /\ burst.queries <= 1
    /\ burst.sets <= 1
    /\ (pcLoop = "recv" /\ burst.signals >= 1)
         => (burst.queries = 1 /\ burst.sets = 1)

\* A burst of three signals has been settled with one query.
C3_Witness ==
    /\ pcLoop = "recv" /\ burst.signals >= 3
    /\ burst.queries = 1 /\ burst.sets = 1

\* ---- C4
\* C4: in the drain-and-settle phase every signal received restarts the
\* window (the window runs from the latest receive), and the oracle is called
\* only when a full window has passed since a signal was last received.
C4_DebounceReset ==
    /\ pcLoop = "settle" => elapsed = sinceRecv
    /\ pcLoop = "query" => sinceRecv = Window

\* The oracle is being called for a burst whose second signal restarted the
\* window.
C4_Witness ==
    /\ pcLoop = "query" /\ burst.signals >= 2 /\ sinceRecv = Window

\* ---- C5
\* C5: exactly one synthetic signal is pushed, before any external line is
\* consumed; while the stream has delivered nothing there is at most one
\* audio-state query, and once the loop is back in step 1 after it the
\* inhibitor is as the oracle said and nothing is left to receive.
C5_StartupEvaluation ==
    /\ startupSends <= 1
    /\ (linesRead > 0 \/ pcMain \in {"lines", "sending"}) => startupSends = 1
    /\ (chan # <<>> \/ queries > 0) => startupSends = 1
    /\ linesRead = 0 =>
         /\ queries <= 1
         /\ pcMain # "sending"
         /\ (queries = 1 /\ pcLoop = "recv") =>
              /\ call.made
              /\ (app.inhibitor # 0) = call.arg
              /\ chan = <<>>

\* No line was delivered; the one query said "running", the inhibitor is
\* held, and the loop waits in recv().
C5_Witness ==
    /\ linesRead = 0 /\ pcMain = "lines" /\ exitCode = "running"
    /\ queries = 1 /\ pcLoop = "recv" /\ chan = <<>>
    /\ call.arg /\ app.inhibitor # 0 /\ server.inhibitors = {app.inhibitor}

\* ---- C6
\* The loop has completed a settled burst: set_inhibited has returned.
C6_Completed == pcLoop = "recv" /\ call.made

\* C6: when the loop has completed a settled burst the inhibitor is held
\* exactly if the oracle returned true; a create request and one round-trip
\* were issued exactly if it returned true and none was held, a destroy
\* request and one round-trip exactly if it returned false and one was held,
\* and nothing was sent otherwise.
C6_SettleApplies ==
    C6_Completed =>
        /\ (app.inhibitor # 0) = call.arg
        /\ (call.reqs = <<"create_inhibitor">> /\ call.rts = 1)
             <=> (call.arg /\ call.held = 0)
        /\ (call.reqs = <<"destroy">> /\ call.rts = 1)
             <=> (~call.arg /\ call.held = 1)
        /\ ~(call.arg <=> call.held = 0)
             => (call.reqs = <<>> /\ call.rts = 0 /\ call.passes = 0)
        /\ outgoing = <<>>

\* The oracle returned false while an inhibitor was held: it was destroyed,
\* with one round-trip.
C6_Witness ==
    /\ C6_Completed /\ ~call.arg /\ call.held = 1
    /\ call.reqs = <<"destroy">> /\ call.rts = 1 /\ app.inhibitor = 0

\* ---- C7
\* C7: every failure ends the whole process at once, a failure inside the
\* debounce thread included: in no state has the Debounce Loop failed while
\* the producer still runs and has consumed a further line of the stream.
C7_LoopFailureStopsProducer ==
    ~(/\ pcLoop = "panicked" /\ loopFailedAt # <<>>
      /\ exitCode = "running" /\ pcMain = "lines"
      /\ linesRead > loopFailedAt[1].lines)

\* ---- C8
\* C8: the process exits with code 0 only if no fatal error occurred in either
\* thread: not after a panic of the main thread, and not after a panic of the
\* debounce thread that happened while the stream was still open, whatever
\* the stream delivers afterwards.
C8_ExitZeroOnlyWithoutFailure ==
    exitCode = "0" =>
        /\ pcMain # "panicked"
        /\ ~(loopFailedAt # <<>>
             /\ loopFailedAt[1].main \in {"pactl", "lines", "sending"})

\* ---- C9
\* A required global is not bound.
C9_PartiallyBound == proxies.compositor = 0 \/ proxies.idle_inhibit_manager = 0

\* The interfaces the discovery pass saw advertised.
C9_Advertised == {registry.globals[i] : i \in 1..Len(registry.globals)}

\* C9: a required global that was not advertised is left unbound by the
\* discovery pass; with a required global unbound startup panics at the
\* expects, and no surface exists, no request has been queued or processed,
\* the debounce thread has not been spawned and no inhibitor has been asked
\* for; the process then ends with status 101.
C9_BindingFailure ==
    /\ [](pcMain = "expect" =>
            /\ "wl_compositor" \notin C9_Advertised => proxies.compositor = 0
            /\ "zwp_idle_inhibit_manager_v1" \notin C9_Advertised
                 => proxies.idle_inhibit_manager = 0)
    /\ [](C9_PartiallyBound =>
            /\ pcMain \in {"connect", "discover", "expect", "panicked"}
            /\ app.dummy_surface = 0 /\ server.surfaces = {}
            /\ outgoing = <<>>
            /\ pcLoop = "unspawned"
            /\ live = {} /\ ~call.made /\ queries = 0
            /\ exitCode \in {"running", "101"})
    /\ [][(pcMain = "expect" /\ C9_PartiallyBound /\ pcMain' # pcMain)
            => pcMain' = "panicked"]_vars

\* A surface factory was advertised and bound, an idle-inhibit manager was
\* not: the process has ended with status 101.
C9_Witness ==
    /\ proxies.compositor # 0 /\ proxies.idle_inhibit_manager = 0
    /\ pcMain = "panicked" /\ exitCode = "101"

\* ---- C10
\* The names of the advertised globals that carry `interface`, in order.
C10_Matching(interface) ==
    SelectSeq([i \in 1..Len(registry.globals) |-> i],
              LAMBDA i : registry.globals[i] = interface)

\* The names the bind requests for `interface` were issued for, in order.
C10_Bound(interface) ==
    LET b == SelectSeq(registry.binds, LAMBDA r : r.interface = interface)
    IN  [i \in 1..Len(b) |-> b[i].name]

\* C10 as written: of several globals carrying one required interface only
\* the first is bound; one bind request is issued for the interface and the
\* binding recorded is the first global's.
C10_FirstWins ==
    pcMain = "expect" =>
        \A i \in 1..Len(ProxyTable) :
            LET m == C10_Matching(ProxyTable[i].interface)
            IN  m # <<>> =>
                  /\ C10_Bound(ProxyTable[i].interface) = <<m[1]>>
                  /\ proxies[ProxyTable[i].field] = m[1]

\* C10 as the code has it: every advertised global carrying a required
\* interface is bound, in the order advertised, with the version of the
\* table, and the binding recorded after the pass is the last global's;
\* nothing else is bound.
C10_LastWins ==
    pcMain = "expect" =>
        /\ \A i \in 1..Len(ProxyTable) :
             LET m == C10_Matching(ProxyTable[i].interface)
             IN  /\ C10_Bound(ProxyTable[i].interface) = m
                 /\ proxies[ProxyTable[i].field]
                      = IF m = <<>> THEN 0 ELSE m[Len(m)]
        /\ \A j \in 1..Len(registry.binds) :
             \E i \in 1..Len(ProxyTable) :
                 /\ registry.binds[j].interface = ProxyTable[i].interface
                 /\ registry.binds[j].version = ProxyTable[i].version

\* Two globals carry the idle-inhibit manager interface; both were bound and
\* the second is the one recorded.
C10_Witness ==
    /\ pcMain = "expect"
    /\ Len(C10_Matching("zwp_idle_inhibit_manager_v1")) >= 2
    /\ Len(C10_Bound("zwp_idle_inhibit_manager_v1")) >= 2
    /\ proxies.idle_inhibit_manager
         = C10_Matching("zwp_idle_inhibit_manager_v1")[2]

\* ---- C11
\* `line` is `p` followed by anything.
C11_Begins(line, p) ==
    \E n \in 0..Len(line) : line = p \o SubSeq(line, n + 1, Len(line))

\* `line` is "Event 'change' on <object-kind> ..." with an object kind that
\* begins with sink-input or source-output.
C11_Relevant(line) ==
    \/ C11_Begins(line, ChangePrefix \o SinkInput)
    \/ C11_Begins(line, ChangePrefix \o SourceOutput)

\* A step that consumes a line of the stream.
C11_Consumes == linesRead' = linesRead + 1

\* C11: a line of the stream produces a WakeSignal (reaches the send: the
\* signal is buffered, or the send blocks, or it fails) exactly if it is a
\* change event on a sink-input or source-output; any other line changes
\* nothing but the count of lines consumed.
C11_Filter ==
    [][C11_Consumes =>
         /\ lastLine' # <<>>
         /\ C11_Relevant(lastLine'[1]) <=> (<<pcMain, chan>>' # <<pcMain, chan>>)
         /\ C11_Relevant(lastLine'[1]) =>
              \/ chan' = Append(chan, [cont |-> gap < Window])
              \/ (pcMain' = "sending" /\ Len(chan) = ChannelCapacity)
              \/ (pcMain' = "panicked" /\ pcLoop = "panicked")
         /\ ~C11_Relevant(lastLine'[1]) =>
              UNCHANGED <<pcMain, exitCode, registry, proxies, pcLoop, chan,
                          elapsed, app, live, outgoing, server, call, queries,
                          startupSends, lastSend, gap, sinceRecv, burst,
                          loopFailedAt>>
    ]_vars

\* The line "Event 'change' on source-output #2" was consumed and its signal
\* is in the buffer.
C11_Witness ==
    /\ lastLine = <<LineChangeSourceOutput>>
    /\ chan # <<>> /\ gap = 0 /\ pcMain = "lines"

\* ---- C12
\* A set_inhibited call has been entered and its round-trip has not returned.
C12_CallInProgress == call.made /\ call.rts < call.passes

\* A step of the main thread.
C12_MainStep == pcMain' # pcMain \/ linesRead' # linesRead

\* C12: only the debounce thread calls set_inhibited and the oracle, one at a
\* time: while a set_inhibited call is in progress the thread is inside it
\* (so it starts no other call and no query), a call or a query starts only
\* from the debounce thread when none is in progress, and once the thread is
\* spawned no step of the main thread touches the controller's state.
C12_Serialized ==
    /\ [](C12_CallInProgress => pcLoop \in {"roundtrip", "panicked"})
    /\ [][(queries' # queries \/ (call' # call /\ call'.rts = 0)) =>
            /\ ~C12_CallInProgress
            /\ (queries' # queries) => pcLoop = "settle"
            /\ (call' # call) => pcLoop = "query"
            /\ UNCHANGED <<pcMain, linesRead, lastLine, lastSend, chan>>]_vars
    /\ [][(C12_MainStep /\ pcLoop # "unspawned") =>
            UNCHANGED <<pcLoop, app, live, call, queries, outgoing, server,
                        elapsed, burst>>]_vars

\* A set_inhibited call is in its round-trip while the producer, having
\* consumed a line, has put a signal in the buffer.
C12_Witness ==
    /\ C12_CallInProgress /\ pcLoop = "roundtrip"
    /\ linesRead > 0 /\ chan # <<>> /\ pcMain = "lines"

----------------------------------------------------------------------------
\* C13: the channel never holds more than one undelivered signal. A send
\* attempted while one is still undelivered leaves the buffer as it is and
\* blocks the producer; the blocked producer consumes no further line and
\* adds nothing to the buffer; its send completes only once the debounce
\* thread has received the pending signal (the buffer is empty), and a send
\* that waits with the buffer already emptied is ready to complete.  The one
\* other way out of the wait is the failure of the send once the debounce
\* thread has ended.
C13_Blocked == pcMain = "sending"

C13_SendAttempt ==
    \/ pcMain = "pactl" /\ startupSends' # startupSends
    \/ C11_Consumes /\ lastLine' # <<>> /\ C11_Relevant(lastLine'[1])

C13_Backpressure ==
    /\ [](Len(chan) <= 1)
    /\ [][(C13_SendAttempt /\ Len(chan) = 1 /\ pcLoop \notin {"panicked", "finished"}) =>
            (C13_Blocked' /\ chan' = chan /\ lastSend' = "waited")]_vars
    /\ [][C13_Blocked =>
            /\ UNCHANGED <<linesRead, lastLine>>
            /\ (chan' # chan /\ C13_Blocked') => (chan # <<>> /\ chan' = Tail(chan))
            /\ ~C13_Blocked' =>
                 \/ /\ pcMain' = "lines"
                    /\ chan = <<>>
                    /\ Len(chan') = 1
                    /\ lastSend' = "waited"
                 \/ /\ pcMain' = "panicked"
                    /\ pcLoop \in {"panicked", "finished"}
                    /\ chan' = chan]_vars
    /\ []((C13_Blocked /\ chan = <<>> /\ pcLoop \notin {"panicked", "finished"}
           /\ exitCode = "running") => ENABLED SendUnblocked)

\* The producer waited with its second relevant line while the debounce
\* thread was busy, and its send went through after the thread came back
\* for the pending signal: the waited signal is the one now buffered.
C13_Witness ==
    /\ lastSend = "waited"
    /\ pcMain = "lines"
    /\ chan # <<>>
    /\ linesRead = 2
    /\ pcLoop = "settle"

----------------------------------------------------------------------------
\* C14: a set_inhibited call that changes state opens one fresh dispatch
\* pass, queues exactly one create or destroy request on it and nothing
\* reaches the compositor yet; it then makes exactly one round-trip, which
\* delivers that request, and only then returns.  Whenever set_inhibited
\* has returned, the compositor holds an inhibitor exactly when
\* is_inhibited() is true (and it is the one the controller records).
C14_Enters == call' # call /\ call'.rts = 0

C14_Returned == call.made /\ call.rts = call.passes

C14_CompositorAgrees ==
    /\ (server.inhibitors # {}) = (app.inhibitor # 0)
    /\ server.inhibitors = {app.inhibitor} \ {0}
    /\ outgoing = <<>>

C14_RoundtripBeforeReturn ==
    /\ [][C14_Enters =>
            /\ call'.made /\ call'.passes \in {0, 1}
            /\ (app'.inhibitor # app.inhibitor) = (call'.passes = 1)
            /\ call'.passes = 0 => (UNCHANGED <<outgoing, server>> /\ call'.reqs = <<>>)
            /\ call'.passes = 1 =>
                 /\ Len(call'.reqs) = 1
                 /\ call'.reqs[1] = (IF call'.arg THEN "create_inhibitor" ELSE "destroy")
                 /\ Len(outgoing') = Len(outgoing) + 1
                 /\ outgoing'[Len(outgoing')].op = call'.reqs[1]
                 /\ server' = server
                 /\ pcLoop' = "roundtrip"]_vars
    /\ [][(call.made /\ call'.rts # call.rts /\ ~C14_Enters) =>
            /\ pcLoop = "roundtrip"
            /\ call.rts = 0 /\ call'.rts = 1 /\ call.passes = 1
            /\ Len(outgoing) = 1 /\ outgoing[1].op = call.reqs[1]
            /\ outgoing' = <<>>
            /\ server'.inhibitors # server.inhibitors
            /\ pcLoop' = "recv"]_vars
    /\ []((call.made /\ pcLoop \in {"recv", "settle", "query", "finished"})
            => C14_Returned)
    /\ [](C14_Returned => C14_CompositorAgrees)

\* A destroy has gone through its round-trip and set_inhibited(false) has
\* returned: the compositor holds no inhibitor any more.
C14_Witness ==
    /\ C14_Returned
    /\ call.reqs = <<"destroy">>
    /\ call.rts = 1
    /\ pcLoop = "recv"
    /\ server.inhibitors = {}
    /\ app.inhibitor = 0

----------------------------------------------------------------------------
\* C15: once the sender is gone and the buffer is empty, a debounce thread
\* waiting in recv() or in recv_timeout() can only end (or the process ends
\* under it), and under fair scheduling it does.  Ending from recv_timeout
\* makes no audio-state query and no set_inhibited call for the pending
\* burst: the controller, the compositor and the request queue stay as the
\* last call left them.
C15_Closed == pcMain \in {"returned", "panicked"} /\ chan = <<>>

C15_Waiting == pcLoop \in {"recv", "settle"}

C15_TerminatesOnClosure ==
    /\ [][(C15_Closed /\ C15_Waiting /\ pcLoop' # pcLoop) =>
            /\ pcLoop' = "finished"
            /\ UNCHANGED <<queries, call, burst, app, live, outgoing, server>>]_vars
    /\ [][(pcLoop = "settle" /\ pcLoop' = "finished") =>
            /\ C15_Closed
            /\ UNCHANGED <<queries, call, burst, app, live, outgoing, server>>]_vars
    /\ [][pcLoop = "finished" =>
            UNCHANGED <<pcLoop, queries, call, burst, app, live, outgoing, server>>]_vars
    /\ ((C15_Closed /\ C15_Waiting) ~> (pcLoop = "finished" \/ exitCode # "running"))

\* The thread ended from recv_timeout with a burst pending (signals taken,
\* no query made for them) while an inhibitor made earlier is still held,
\* by the controller and by the compositor.
C15_Witness ==
    /\ pcLoop = "finished"
    /\ exitCode = "running"
    /\ burst.signals > 0 /\ burst.queries = 0
    /\ call.made /\ call.arg
    /\ app.inhibitor # 0
    /\ server.inhibitors = {app.inhibitor}

----------------------------------------------------------------------------
\* C16: at most one create_surface request is ever issued, and exactly one
\* once startup has got past it; it is issued with both factories bound and
\* before the debounce thread, the only source of inhibitor requests,
\* exists.  No request ever removes a surface.  From the moment the
\* controller is built, set_inhibited included, its surface and its manager
\* binding never change, and every create_inhibitor request names that
\* surface, the one the compositor holds.
RECURSIVE C16_Count(_, _)
C16_Count(reqs, op) ==
    IF reqs = <<>> THEN 0
    ELSE (IF Head(reqs).op = op THEN 1 ELSE 0) + C16_Count(Tail(reqs), op)

C16_SurfaceRequests ==
    Cardinality(server.surfaces) + C16_Count(outgoing, "create_surface")

C16_Issues(op) == C16_Count(outgoing', op) > C16_Count(outgoing, op)

C16_OneSurface ==
    /\ [](C16_SurfaceRequests <= 1)
    /\ []((pcMain \in {"surface", "pactl", "lines", "sending", "returned"}
           \/ pcLoop # "unspawned") => C16_SurfaceRequests = 1)
    /\ [][C16_Issues("create_surface") =>
            /\ C16_SurfaceRequests = 0
            /\ proxies.compositor # 0 /\ proxies.idle_inhibit_manager # 0
            /\ pcLoop = "unspawned" /\ ~call.made /\ live = {}
            /\ C16_Count(outgoing, "create_inhibitor") = 0
            /\ server.inhibitors = {}]_vars
    /\ [][/\ server.surfaces \subseteq server'.surfaces
          /\ \A k \in 1..Len(outgoing) :
               server.surfaces \subseteq Process(server, outgoing[k]).surfaces]_vars
    /\ [][pcLoop # "unspawned" =>
            /\ app'.dummy_surface = app.dummy_surface
            /\ app'.manager = app.manager
            /\ server'.surfaces = server.surfaces]_vars
    /\ [](pcLoop # "unspawned" =>
            /\ app.dummy_surface # 0
            /\ server.surfaces = {app.dummy_surface}
            /\ app.manager = proxies.idle_inhibit_manager /\ app.manager # 0
            /\ \A k \in 1..Len(outgoing) :
                 outgoing[k].op = "create_inhibitor" =>
                     outgoing[k].on = app.dummy_surface)

\* The third state-changing call, the second creation: its request is
\* queued for the surface made at startup, the only one the compositor has.
C16_Witness ==
    /\ pcLoop = "roundtrip"
    /\ queries = 3
    /\ Len(outgoing) = 1
    /\ outgoing[1].op = "create_inhibitor"
    /\ outgoing[1].on = app.dummy_surface
    /\ server.surfaces = {app.dummy_surface}
    /\ server.inhibitors = {}

----------------------------------------------------------------------------
\* C17: no wake-up is lost.  Provided `pactl list` and the compositor
\* answer, a signal whose send has completed is followed by an audio-state
\* query that starts after that send.  A query starts only out of a settle
\* phase and only with the buffer empty, so it comes after the send of
\* every signal taken so far; a signal in the buffer while the debounce
\* thread is elsewhere (in recv(), or busy in the query or the round-trip
\* of an earlier burst) leads to a settle phase, which is where it is
\* taken; and a settle phase leads to a query.  It is excused only if the
\* source closes, the process ends or the thread panics.
C17_Answered ==
    /\ WF_vars(OracleReturn \/ OracleFail)
    /\ WF_vars(RoundtripOk \/ RoundtripFail)

C17_SentWhileElsewhere ==
    chan # <<>> /\ pcLoop \in {"recv", "query", "roundtrip"}

C17_Excused ==
    \/ pcMain \in {"returned", "panicked"}
    \/ exitCode # "running"
    \/ pcLoop = "panicked"

C17_QueryStarts == queries' = queries + 1

C17_NoLostWakeup ==
    /\ [][(C17_QueryStarts \/ (pcLoop # "query" /\ pcLoop' = "query")) =>
            /\ C17_QueryStarts
            /\ pcLoop = "settle" /\ pcLoop' = "query"
            /\ chan = <<>>]_vars
    /\ [][(chan' # chan /\ Len(chan') < Len(chan)) =>
            (pcLoop' = "settle" /\ chan' = Tail(chan))]_vars
    /\ C17_Answered =>
         /\ C17_SentWhileElsewhere ~> (pcLoop = "settle" \/ C17_Excused)
         /\ (pcLoop = "settle") ~> (pcLoop = "query" \/ C17_Excused)

\* A signal went into the buffer while the debounce thread was in the
\* audio-state query of the startup burst.
C17_Witness ==
    /\ pcLoop = "query"
    /\ chan # <<>>
    /\ queries = 1 /\ burst.queries = 1
    /\ linesRead = 1
    /\ lastSend = "direct"
    /\ pcMain = "lines"

----------------------------------------------------------------------------
\* C18: the two threads never deadlock on the channel.  While the process
\* runs, the producer is never stuck in its send (no way for the send to
\* go through or to fail) at a time when the live debounce thread is stuck
\* in a receive (nothing to take, no disconnection to see).  Once the
\* debounce thread has ended, a send the producer attempts fails at once,
\* buffer full or not, and a send that was already waiting can only fail.
C18_ProducerStuck ==
    pcMain = "sending" /\ ~ENABLED (SendUnblocked \/ SendDisconnected)

C18_LoopStuck ==
    /\ pcLoop \in {"recv", "settle"}
    /\ ~ENABLED (InitialRecv \/ InitialDisconnected \/ SettleRecv \/ SettleDisconnected)

C18_LoopEnded == pcLoop \in {"panicked", "finished"}

C18_SendAttempt ==
    \/ pcMain = "pactl" /\ startupSends' = startupSends + 1
    \/ /\ pcMain = "lines" /\ linesRead' = linesRead + 1
       /\ \/ StartsWith(lastLine'[1], ChangePrefix \o SinkInput)
          \/ StartsWith(lastLine'[1], ChangePrefix \o SourceOutput)

C18_NoChannelDeadlock ==
    /\ [](exitCode = "running" => ~(C18_ProducerStuck /\ C18_LoopStuck))
    /\ [][(C18_SendAttempt /\ C18_LoopEnded) =>
            /\ pcMain' = "panicked"
            /\ lastSend' = "failed"
            /\ chan' = chan]_vars
    /\ []((exitCode = "running" /\ pcMain = "sending" /\ C18_LoopEnded) =>
            ENABLED SendDisconnected /\ ~ENABLED SendUnblocked)
    /\ [][(pcMain = "sending" /\ C18_LoopEnded /\ pcMain' # pcMain) =>
            (pcMain' = "panicked" /\ lastSend' = "failed")]_vars

\* The debounce thread has panicked with a signal left in the buffer; the
\* producer's next send, which could never have found room, has failed.
C18_Witness ==
    /\ pcLoop = "panicked"
    /\ chan # <<>>
    /\ pcMain = "panicked"
    /\ lastSend = "failed"
    /\ linesRead = 2
    /\ exitCode = "running"

====
